---- MODULE Spec2Model ----
(***************************************************************************)
(* The session store and the three Socket.IO handlers of app.py            *)
(* (handle_connect, handle_disconnect, handle_user_message).               *)
(*                                                                         *)
(* The server is built with SocketIO(app, cors_allowed_origins="*") and    *)
(* takes no lock anywhere: every inbound event is handled on a thread of   *)
(* its own, so the steps of two handle_user_message invocations interleave *)
(* at the points where one of them can be preempted or blocks: between the *)
(* append of the user turn and the completion request, and while the       *)
(* completion call is outstanding.  Handlers are numbered in the order in  *)
(* which they run their first lines.                                       *)
(***************************************************************************)
EXTENDS Integers, Sequences, FiniteSets, TLC

VARIABLES
    conversation_histories, \* app.py:27, session id -> list of turns
    conn,                   \* each transport connection: "new", "open", "closed"
    outbox,                 \* per connection, the events emit() addressed to it
    handlers,               \* the invocations of handle_user_message
    overlapped,             \* history: sessions that had two messages in flight at once
    GROQ_API_KEY,           \* app.py:20, os.environ.get('GROQ_API_KEY')
    process                 \* the server process: "loading", "serving", "failed"

vars == <<conversation_histories, conn, outbox, handlers, overlapped,
          GROQ_API_KEY, process>>

-----------------------------------------------------------------------------
(* Bounds of the model *)

\* The number of inbound connect and user_message events of a run.
MaxEvents == 4

Conns == 1..MaxEvents
Handlers == 1..MaxEvents

-----------------------------------------------------------------------------
(* Values *)

\* The values str(uuid.uuid4()) can take.
SessionIds == 1..MaxEvents

\* data.get('session_id') when the key is absent.
NoneSid == -1

\* A session_id of ''.
EmptySid == 0

\* A session_id that is no key of the store and never becomes one
\* ('invalid-session' in the tests).
InvalidSid == -2

\* The text the client sends with its h-th message.
MessageText(h) == "m" \o ToString(h)

\* The text the completion service generates for the h-th message.
ReplyText(h) == "r" \o ToString(h)

SYSTEM_PROMPT == "You are a helpful AI assistant with a friendly and playful personality. Answer questions concisely and accurately."

WELCOME == "Hello there! I'm your friendly chatbot. How can I help you today?"

MODEL == "llama-3.3-70b-versatile"

SESSION_NOT_FOUND == "Session not found"

APOLOGY_PREFIX == "Sorry, I encountered an error: "

\* str(e) of an exception raised by the completion call, and of the IndexError
\* that response.choices[0] raises on a response without candidates.
API_ERROR == "API Error"

INDEX_ERROR == "list index out of range"

Turn(role, content) == [role |-> role, content |-> content]

\* datetime.now().strftime('%H:%M'); the clock is not part of the state.
get_timestamp == "HH:MM"

SessionIdEvent(sid) == [name |-> "session_id", session_id |-> sid]

BotMessage(text) == [name |-> "bot_message", message |-> text, timestamp |-> get_timestamp]

\* A faulty variant: the rejection is sent as a chat message instead of an 'error' event.
ErrorEvent_AsBotMessage == BotMessage(SESSION_NOT_FOUND)

ErrorEvent == [name |-> "error", message |-> SESSION_NOT_FOUND]

\* f"Sorry, I encountered an error: {str(e)}"
Apology(e) == APOLOGY_PREFIX \o e

\* A faulty variant: emit(..., broadcast=True).
emit_Broadcast(ob, c, event) == [c2 \in DOMAIN ob |-> Append(ob[c2], event)]

\* emit(...) inside a handler addresses the event to the connection whose event
\* is being handled.
emit(ob, c, event) == [ob EXCEPT ![c] = Append(@, event)]

\* The payloads of a user_message event: a dict whose session_id is absent,
\* empty, unknown or an identifier, or something that is no dict at all
\* (data.get then raises AttributeError).
Payloads(h) ==
    [dict : {TRUE},
     session_id : SessionIds \cup {NoneSid, EmptySid, InvalidSid},
     message : {MessageText(h)}]
    \cup {[dict |-> FALSE, session_id |-> NoneSid, message |-> ""]}

\* What client_groq.chat.completions.create can do: return a response with one
\* candidate, return a response without candidates, or raise.
Outcomes(h) ==
    { [raised |-> FALSE, choices |-> <<ReplyText(h)>>, error |-> ""],
      [raised |-> FALSE, choices |-> <<>>, error |-> ""],
      [raised |-> TRUE, choices |-> <<>>, error |-> API_ERROR] }

NoRequest == [model |-> "", messages |-> <<>>]

NoOutcome == [raised |-> FALSE, choices |-> <<>>, error |-> "not called"]

\* An invocation of handle_user_message: where it is (pc), the connection its
\* event came from, its argument, the request it sent and how often it called
\* the completion service, what the call did; and, as history, the events it
\* emitted and the indices at which it appended its user and assistant turns.
IdleHandler ==
    [pc |-> "idle", conn |-> 0,
     data |-> [dict |-> FALSE, session_id |-> NoneSid, message |-> ""],
     request |-> NoRequest, calls |-> 0, outcome |-> NoOutcome,
     emitted |-> <<>>, uidx |-> 0, aidx |-> 0]

-----------------------------------------------------------------------------
(* Start of the process *)

\* os.environ.get('GROQ_API_KEY') when the variable is not set (None).
NoKey == "None"

\* What the environment, after load_dotenv(), can hold for GROQ_API_KEY:
\* nothing, the empty string, or a key.
Environments == {NoKey, "", "gsk-key"}

\* A faulty variant: the module never checks the credential.
CredentialMissing_NeverChecked(key) == FALSE

\* `not GROQ_API_KEY`
CredentialMissing(key) == key = NoKey \/ key = ""

-----------------------------------------------------------------------------
(* The session store *)

\* A faulty variant: an identifier generator that can repeat an identifier.
uuid4_MayCollide == SessionIds

\* str(uuid.uuid4()): an identifier that was not generated before. Identifiers
\* are only ever compared for equality, so the next unused one stands for any.
uuid4 ==
    LET unused == SessionIds \ DOMAIN conversation_histories
    IN {sid \in unused : \A other \in unused : sid <= other}

\* A faulty variant: a session created without its system turn.
InitialHistory_Empty == <<>>

\* A faulty variant: the greeting stored in the transcript.
InitialHistory_WithGreeting ==
    <<Turn("system", SYSTEM_PROMPT), Turn("assistant", WELCOME)>>

InitialHistory == <<Turn("system", SYSTEM_PROMPT)>>

\* A faulty variant: the greeting stored as the first assistant turn.
StoreSession_WithGreeting(hist, sid) ==
    (sid :> Append(InitialHistory, Turn("assistant", WELCOME))) @@ hist

\* conversation_histories[session_id] = [...]
StoreSession(hist, sid) == (sid :> InitialHistory) @@ hist

\* `not session_id or session_id not in conversation_histories` is false
SessionFound(hist, sid) == sid \notin {NoneSid, EmptySid} /\ sid \in DOMAIN hist

\* A faulty variant: every session shares one list of turns.
AppendUserTurn_SharedList(hist, sid, message) ==
    [s \in DOMAIN hist |-> Append(hist[s], Turn("user", message))]

\* A faulty variant: the user turn appended twice.
AppendUserTurn_Twice(hist, sid, message) ==
    [hist EXCEPT ![sid] = Append(Append(@, Turn("user", message)),
                                 Turn("user", message))]

\* conversation_histories[session_id].append({"role": "user", "content": message})
AppendUserTurn(hist, sid, message) ==
    [hist EXCEPT ![sid] = Append(@, Turn("user", message))]

\* messages=conversation_histories[session_id]
RequestMessages(hist, sid) == hist[sid]

\* A faulty variant: the reply stored under a role that is not 'assistant'.
AppendAssistantTurn_RoleBot(hist, sid, bot_response) ==
    [hist EXCEPT ![sid] = Append(@, Turn("bot", bot_response))]

\* A faulty variant: the reply overwrites the last turn of the transcript.
AppendAssistantTurn_Replaces(hist, sid, bot_response) ==
    [hist EXCEPT ![sid] = Append(SubSeq(@, 1, Len(@) - 1),
                                 Turn("assistant", bot_response))]

\* conversation_histories[session_id].append({"role": "assistant", "content": bot_response})
AppendAssistantTurn(hist, sid, bot_response) ==
    [hist EXCEPT ![sid] = Append(@, Turn("assistant", bot_response))]

\* A faulty variant: the except branch stores the apology as the assistant's turn.
HistoriesAfterFailure_StoresApology(hist, sid, e) ==
    AppendAssistantTurn(hist, sid, Apology(e))

\* What the except branch does to the store: nothing.
HistoriesAfterFailure(hist, sid, e) == hist

\* A faulty variant: a disconnect that clears the store.
HistoriesAfterDisconnect_Clears(hist) == <<>>

\* What handle_disconnect does to the store: nothing.
HistoriesAfterDisconnect(hist) == hist

\* The keyword arguments of the call as a recorder of the calls (the mock of
\* the tests) keeps them: messages is the list object of the store itself, not
\* a copy, so it shows whatever the list holds when it is looked at.
call_args(h) ==
    [model |-> MODEL,
     messages |-> conversation_histories[handlers[h].data.session_id]]

InFlight(h) == handlers[h].pc \in {"appended", "awaiting"}

\* A faulty variant: one thread handles all events, each to its end, so an
\* event waits while the handler of another is not over.
Blocked_SingleThread(h) == \E h2 \in Handlers \ {h} : InFlight(h2)

\* Whether the event of handler h has to wait for another handler. The server
\* is SocketIO(app, ...) with the default settings and the packages the module
\* lists (no eventlet, no gevent): threading mode, every event handled on a
\* thread of its own, and the handlers share no lock.
Blocked(h) == FALSE

\* The inbound events handled so far.
EventCount ==
    Cardinality({c \in Conns : conn[c] # "new"})
    + Cardinality({h \in Handlers : handlers[h].pc # "idle"})

-----------------------------------------------------------------------------
(* The handlers *)

Init ==
    /\ conversation_histories = <<>>
    /\ conn = [c \in Conns |-> "new"]
    /\ outbox = [c \in Conns |-> <<>>]
    /\ handlers = [h \in Handlers |-> IdleHandler]
    /\ overlapped = {}
    /\ GROQ_API_KEY \in Environments
    /\ process = "loading"

\* The module body, lines 14..98: without the credential it raises ValueError
\* before any handler is registered and before socketio.run is reached.
load_module ==
    /\ process = "loading"
    /\ process' = IF CredentialMissing(GROQ_API_KEY) THEN "failed" ELSE "serving"
    /\ UNCHANGED <<conversation_histories, conn, outbox, handlers, overlapped,
                   GROQ_API_KEY>>

\* @socketio.on('connect')
handle_connect(c) ==
    /\ process = "serving"
    /\ conn[c] = "new"
    /\ \A c2 \in Conns : c2 < c => conn[c2] # "new"
    /\ EventCount < MaxEvents
    /\ \E session_id \in uuid4 :
        /\ conversation_histories' = StoreSession(conversation_histories, session_id)
        /\ outbox' = emit(emit(outbox, c, SessionIdEvent(session_id)), c, BotMessage(WELCOME))
    /\ conn' = [conn EXCEPT ![c] = "open"]
    /\ UNCHANGED <<handlers, overlapped, GROQ_API_KEY, process>>

\* @socketio.on('disconnect')
handle_disconnect(c) ==
    /\ process = "serving"
    /\ conn[c] = "open"
    /\ conn' = [conn EXCEPT ![c] = "closed"]
    /\ conversation_histories' = HistoriesAfterDisconnect(conversation_histories)
    /\ UNCHANGED <<outbox, handlers, overlapped, GROQ_API_KEY, process>>

\* @socketio.on('user_message'): a user_message event arrives on an open
\* connection; the handler runs from its first line to the append of the user
\* turn, or to its early return.
handle_user_message(h, c, data) ==
    LET session_id == data.session_id
        message == data.message
        me == [handlers[h] EXCEPT !.conn = c, !.data = data]
    IN
    /\ process = "serving"
    /\ handlers[h].pc = "idle"
    /\ \A h2 \in Handlers : h2 < h => handlers[h2].pc # "idle"
    /\ conn[c] = "open"
    /\ ~Blocked(h)
    /\ EventCount < MaxEvents
    \* the identifiers a client can present are those some connect handed out
    /\ session_id \in SessionIds => session_id \in DOMAIN conversation_histories
    /\ IF ~data.dict
       THEN \* data.get raises: the handler ends with the exception
            /\ handlers' = [handlers EXCEPT ![h] = [me EXCEPT !.pc = "raised"]]
            /\ UNCHANGED <<conversation_histories, outbox, overlapped>>
       ELSE IF ~SessionFound(conversation_histories, session_id)
       THEN /\ outbox' = emit(outbox, c, ErrorEvent)
            /\ handlers' = [handlers EXCEPT ![h] =
                    [me EXCEPT !.pc = "rejected", !.emitted = Append(@, ErrorEvent)]]
            /\ UNCHANGED <<conversation_histories, overlapped>>
       ELSE /\ conversation_histories' =
                    AppendUserTurn(conversation_histories, session_id, message)
            /\ handlers' = [handlers EXCEPT ![h] =
                    [me EXCEPT !.pc = "appended",
                               !.uidx = Len(conversation_histories'[session_id])]]
            /\ overlapped' =
                    IF \E h2 \in Handlers \ {h} :
                            InFlight(h2) /\ handlers[h2].data.session_id = session_id
                    THEN overlapped \cup {session_id} ELSE overlapped
            /\ UNCHANGED outbox
    /\ UNCHANGED <<conn, GROQ_API_KEY, process>>

\* client_groq.chat.completions.create(model=..., messages=...): the request is
\* built from the transcript as it is at the call.
create(h) ==
    LET me == handlers[h] IN
    /\ me.pc = "appended"
    /\ handlers' = [handlers EXCEPT ![h] =
            [@ EXCEPT !.pc = "awaiting",
                      !.calls = @ + 1,
                      !.request = [model |-> MODEL,
                                   messages |-> RequestMessages(conversation_histories,
                                                                me.data.session_id)]]]
    /\ UNCHANGED <<conversation_histories, conn, outbox, overlapped,
                   GROQ_API_KEY, process>>

\* The completion call returns or raises; the rest of the try block, or the
\* except block, runs.
completion_returns(h, outcome) ==
    LET me == handlers[h]
        sid == me.data.session_id
    IN
    /\ me.pc = "awaiting"
    /\ IF ~outcome.raised /\ Len(outcome.choices) > 0
       THEN LET bot_response == outcome.choices[1] IN
            /\ conversation_histories' =
                    AppendAssistantTurn(conversation_histories, sid, bot_response)
            /\ outbox' = emit(outbox, me.conn, BotMessage(bot_response))
            /\ handlers' = [handlers EXCEPT ![h] =
                    [@ EXCEPT !.pc = "completed",
                              !.outcome = outcome,
                              !.request = NoRequest,
                              !.aidx = Len(conversation_histories'[sid]),
                              !.emitted = Append(@, BotMessage(bot_response))]]
       ELSE LET e == IF outcome.raised THEN outcome.error ELSE INDEX_ERROR IN
            /\ conversation_histories' =
                    HistoriesAfterFailure(conversation_histories, sid, e)
            /\ outbox' = emit(outbox, me.conn, BotMessage(Apology(e)))
            /\ handlers' = [handlers EXCEPT ![h] =
                    [@ EXCEPT !.pc = "failed",
                              !.outcome = outcome,
                              !.request = NoRequest,
                              !.emitted = Append(@, BotMessage(Apology(e)))]]
    /\ UNCHANGED <<conn, overlapped, GROQ_API_KEY, process>>

Next ==
    \/ load_module
    \/ \E c \in Conns : handle_connect(c)
    \/ \E c \in Conns : handle_disconnect(c)
    \/ \E h \in Handlers, c \in Conns : \E data \in Payloads(h) : handle_user_message(h, c, data)
    \/ \E h \in Handlers : create(h)
    \/ \E h \in Handlers : \E outcome \in Outcomes(h) : completion_returns(h, outcome)

Spec == Init /\ [][Next]_vars

-----------------------------------------------------------------------------
(* Helpers of the properties *)

Sessions == DOMAIN conversation_histories

IsPrefix(a, b) == Len(a) <= Len(b) /\ SubSeq(b, 1, Len(a)) = a

RoleCount(t, n, role) == Cardinality({i \in 1..n : t[i].role = role})

\* The description of a failed completion call: str(e).
FailureText(outcome) ==
    IF outcome.raised THEN outcome.error ELSE "list index out of range"

Failing(outcome) == outcome.raised \/ Len(outcome.choices) = 0

Started(h) == handlers[h].pc = "idle" /\ handlers'[h].pc # "idle"

Returned(h) == handlers[h].pc = "awaiting" /\ handlers'[h].pc # "awaiting"

-----------------------------------------------------------------------------
(* C1..C5 *)

\* C1: a user_message whose session_id is missing, empty or no key of the
\* store is rejected: exactly one 'error' event 'Session not found' goes to
\* the sender and nothing to anyone else, the store is unchanged (no entry is
\* created, no transcript modified), and the handler is over: it never calls
\* the completion service and never emits a bot_message.
C1_UnknownSessionRejected ==
    [][\A h \in Handlers :
        LET after == handlers'[h]
            sid == after.data.session_id
            error == [name |-> "error", message |-> "Session not found"]
        IN  /\ (Started(h) /\ after.data.dict
                  /\ (sid \in {NoneSid, EmptySid} \/ sid \notin Sessions))
               => /\ after.pc = "rejected"
                  /\ outbox' = [outbox EXCEPT ![after.conn] = Append(@, error)]
                  /\ conversation_histories' = conversation_histories
                  /\ after.emitted = <<error>>
                  /\ after.calls = 0
                  /\ after.request = NoRequest
            /\ handlers[h].pc = "rejected" => after = handlers[h]
      ]_vars

C1_Witness ==
    \E h \in Handlers, s \in Sessions :
        /\ handlers[h].pc = "rejected"
        /\ handlers[h].data.session_id = InvalidSid
        /\ Len(conversation_histories[s]) > 1

\* C2: a message for an existing session whose completion call returns reply
\* R appends exactly two turns to that session's transcript, first a user
\* turn with the message text, later an assistant turn with R, and emits
\* exactly one bot_message with R, to the sender; when no other message of the
\* session was in flight meanwhile the two turns are the last two of the
\* transcript, so the first message of a fresh session leaves
\* (system, user, assistant).
C2_SuccessAppendsUserThenAssistant ==
    [][\A h \in Handlers :
        LET before == handlers[h]
            after == handlers'[h]
            sid == after.data.session_id
            R == after.outcome.choices[1]
            user == [role |-> "user", content |-> after.data.message]
            assistant == [role |-> "assistant", content |-> R]
            reply == [name |-> "bot_message", message |-> R, timestamp |-> get_timestamp]
        IN  /\ (Started(h) /\ after.pc = "appended")
               => /\ conversation_histories' =
                        [conversation_histories EXCEPT ![sid] = Append(@, user)]
                  /\ outbox' = outbox
            /\ (before.pc = "appended" /\ after.pc = "awaiting")
               => /\ conversation_histories' = conversation_histories
                  /\ outbox' = outbox
            /\ (Returned(h) /\ ~Failing(after.outcome))
               => /\ after.pc = "completed"
                  /\ conversation_histories' =
                        [conversation_histories EXCEPT ![sid] = Append(@, assistant)]
                  /\ outbox' = [outbox EXCEPT ![after.conn] = Append(@, reply)]
                  /\ after.emitted = <<reply>>
                  /\ after.calls = 1
                  /\ after.uidx < after.aidx
                  /\ conversation_histories'[sid][after.uidx] = user
                  /\ conversation_histories'[sid][after.aidx] = assistant
                  /\ sid \notin overlapped
                     => /\ after.aidx = after.uidx + 1
                        /\ after.aidx = Len(conversation_histories'[sid])
                        /\ after.uidx = 2
                           => conversation_histories'[sid] =
                                <<[role |-> "system", content |-> SYSTEM_PROMPT],
                                  user, assistant>>
            /\ before.pc = "completed" => after = before
      ]_vars

C2_Witness ==
    \E h \in Handlers :
        /\ handlers[h].pc = "completed"
        /\ Len(conversation_histories[handlers[h].data.session_id]) = 3
        /\ handlers[h].uidx = 2
        /\ handlers[h].aidx = 3

\* C3: a message for an existing session whose completion call fails (it
\* raises, or its response has no candidate) appends the user turn and nothing
\* else: the failure changes no transcript, no turn ever carries the apology,
\* and exactly one bot_message, the apology prefix followed by the failure's
\* description, is emitted to the sender (and no 'error' event).
C3_FailureKeepsUserTurnOnly ==
    [][/\ \A h \in Handlers :
            LET after == handlers'[h]
                sid == after.data.session_id
                user == [role |-> "user", content |-> after.data.message]
                apology == [name |-> "bot_message",
                            message |-> "Sorry, I encountered an error: "
                                            \o FailureText(after.outcome),
                            timestamp |-> get_timestamp]
            IN  /\ (Returned(h) /\ Failing(after.outcome))
                   => /\ after.pc = "failed"
                      /\ conversation_histories' = conversation_histories
                      /\ outbox' = [outbox EXCEPT ![after.conn] = Append(@, apology)]
                      /\ after.emitted = <<apology>>
                      /\ after.aidx = 0
                      /\ conversation_histories'[sid][after.uidx] = user
                      /\ sid \notin overlapped
                         => after.uidx = Len(conversation_histories'[sid])
                /\ handlers[h].pc = "failed" => after = handlers[h]
       /\ \A s \in DOMAIN conversation_histories' :
            \A i \in 1..Len(conversation_histories'[s]) :
                conversation_histories'[s][i].content \notin
                    {"Sorry, I encountered an error: " \o e :
                        e \in {API_ERROR, "list index out of range"}}
      ]_vars

C3_Witness ==
    \E h1, h2 \in Handlers :
        /\ handlers[h1].pc = "failed" /\ handlers[h1].outcome.raised
        /\ handlers[h2].pc = "failed" /\ ~handlers[h2].outcome.raised
        /\ handlers[h1].data.session_id = handlers[h2].data.session_id

\* C4: every session in the store has a non-empty transcript whose first turn
\* is the system turn with the fixed system prompt.
C4_TranscriptStartsWithSystemTurn ==
    \A s \in Sessions :
        /\ Len(conversation_histories[s]) >= 1
        /\ conversation_histories[s][1] = [role |-> "system", content |-> SYSTEM_PROMPT]

C4_Witness ==
    \E h1, h2 \in Handlers, c \in Conns :
        /\ handlers[h1].pc = "failed"
        /\ handlers[h2].pc = "rejected"
        /\ conn[c] = "closed"
        /\ Len(conversation_histories[handlers[h1].data.session_id]) >= 2

\* C5: every connect adds exactly one entry to the store, under an identifier
\* that was not in it, with a transcript of length 1, and changes no entry
\* that was there; so the store holds one session per connect.
C5_ConnectAddsOneFreshSession ==
    [][/\ \A c \in Conns :
            (conn[c] = "new" /\ conn'[c] = "open")
            => \E sid \in DOMAIN conversation_histories' :
                /\ sid \notin Sessions
                /\ DOMAIN conversation_histories' = Sessions \cup {sid}
                /\ Len(conversation_histories'[sid]) = 1
                /\ conversation_histories'[sid][1].role = "system"
                /\ \A s \in Sessions :
                        conversation_histories'[s] = conversation_histories[s]
       /\ Cardinality(DOMAIN conversation_histories')
            = Cardinality({c \in Conns : conn'[c] # "new"})
      ]_vars

C5_Witness ==
    /\ Cardinality(Sessions) = 2
    /\ \E s \in Sessions : Len(conversation_histories[s]) > 1

-----------------------------------------------------------------------------
(* C6..C10 *)

SameSession(h1, h2) ==
    /\ handlers[h1].data.dict /\ handlers[h2].data.dict
    /\ handlers[h1].data.session_id = handlers[h2].data.session_id

Position(events, event) == CHOOSE i \in 1..Len(events) : events[i] = event

Reply(h) == BotMessage(handlers[h].outcome.choices[1])

\* C6: two messages m1, m2 of one session whose calls both succeed are
\* processed in the order sent: the assistant turn of m1 precedes the user turn
\* of m2, the reply to m1 is emitted before the reply to m2, the request for m2
\* is (system, user1, assistant1, user2), and the transcript of a session with
\* just these two messages ends as (system, user1, assistant1, user2,
\* assistant2); also when m2 arrives while the call for m1 is outstanding.
C6_MessagesProcessedInOrder ==
    \A h1, h2 \in Handlers :
        (h1 < h2 /\ SameSession(h1, h2) /\ handlers[h1].pc = "completed")
        => LET sid == handlers[h1].data.session_id
               t == conversation_histories[sid]
               u1 == Turn("user", handlers[h1].data.message)
               a1 == Turn("assistant", handlers[h1].outcome.choices[1])
               u2 == Turn("user", handlers[h2].data.message)
           IN  /\ handlers[h2].pc = "completed"
                  => /\ handlers[h1].aidx < handlers[h2].uidx
                     /\ handlers[h1].conn = handlers[h2].conn
                        => Position(outbox[handlers[h1].conn], Reply(h1))
                            < Position(outbox[handlers[h1].conn], Reply(h2))
                     /\ Len(t) = 5
                        => t = <<t[1], u1, a1, u2,
                                 Turn("assistant", handlers[h2].outcome.choices[1])>>
               /\ (handlers[h2].pc = "awaiting" /\ handlers[h1].uidx = 2
                     /\ handlers[h2].uidx <= 4)
                  => handlers[h2].request.messages = <<t[1], u1, a1, u2>>

\* C7: for each session at most one message is in flight, that is between the
\* append of its user turn and the return of its completion call.
C7_OneMessageInFlightPerSession ==
    \A s \in Sessions :
        Cardinality({h \in Handlers :
            InFlight(h) /\ handlers[h].data.session_id = s}) <= 1

\* C8: a step changes the transcript of a session only when it is a step of a
\* handler whose message carries that session's id, so a message, completion,
\* rejection, connect or disconnect of one session leaves every other session's
\* transcript as it was; and the request a handler sends is the transcript of
\* its own session.
C8_SessionIsolation ==
    [][/\ \A B \in Sessions :
            conversation_histories'[B] # conversation_histories[B]
            => \E h \in Handlers :
                /\ handlers'[h] # handlers[h]
                /\ handlers'[h].data.dict
                /\ handlers'[h].data.session_id = B
       /\ Cardinality({h \in Handlers : handlers'[h] # handlers[h]}) <= 1
       /\ \A h \in Handlers :
            handlers'[h].pc = "awaiting"
            => LET sid == handlers'[h].data.session_id IN
               /\ handlers[h].pc = "appended"
                  => handlers'[h].request.messages = conversation_histories[sid]
               /\ Len(handlers'[h].request.messages) >= 2
               /\ IsPrefix(handlers'[h].request.messages, conversation_histories'[sid])
      ]_vars

C8_Witness ==
    \E h1, h2 \in Handlers :
        /\ handlers[h1].pc = "completed"
        /\ handlers[h2].pc = "failed"
        /\ handlers[h1].data.session_id # handlers[h2].data.session_id

\* C9 as claimed, for the sessions whose messages were handled one at a time:
\* after the system turn no two consecutive turns have the same role.
C9_TurnsAlternate ==
    \A s \in Sessions \ overlapped :
        \A i \in 2..(Len(conversation_histories[s]) - 1) :
            conversation_histories[s][i].role # conversation_histories[s][i + 1].role

\* C9 amended: a failed call leaves the user turn of its message in place, so
\* two user turns can be adjacent. Every turn after the system turn is a user
\* or an assistant turn and in every prefix of a transcript the assistant turns
\* do not outnumber the user turns; in a session whose messages were handled
\* one at a time every assistant turn directly follows a user turn, and there
\* are at most as many adjacent pairs of user turns as failed calls.
C9_AssistantTurnsAnswerUserTurns ==
    \A s \in Sessions :
        LET t == conversation_histories[s] IN
        /\ \A i \in 2..Len(t) :
            /\ t[i].role \in {"user", "assistant"}
            /\ RoleCount(t, i, "assistant") <= RoleCount(t, i, "user")
            /\ (s \notin overlapped /\ t[i].role = "assistant") => t[i - 1].role = "user"
        /\ s \notin overlapped
           => Cardinality({i \in 2..(Len(t) - 1) :
                    t[i].role = "user" /\ t[i + 1].role = "user"})
              <= Cardinality({h \in Handlers :
                    handlers[h].pc = "failed" /\ handlers[h].data.session_id = s})

C9_Witness ==
    \E s \in Sessions \ overlapped :
        LET t == conversation_histories[s] IN
        /\ Len(t) = 4
        /\ t[2].role = "user" /\ t[3].role = "user" /\ t[4].role = "assistant"

\* C10: a session id, once in the store, stays in it, and every user_message
\* that carries an id of the store passes validation: it is accepted and no
\* event is emitted for it at that point.
C10_SessionNeverExpires ==
    [][/\ Sessions \subseteq DOMAIN conversation_histories'
       /\ \A h \in Handlers :
            (Started(h) /\ handlers'[h].data.dict
                /\ handlers'[h].data.session_id \in Sessions)
            => /\ handlers'[h].pc = "appended"
               /\ outbox' = outbox
      ]_vars

C10_Witness ==
    \E h1, h2 \in Handlers, c \in Conns :
        LET sid == handlers[h1].data.session_id IN
        /\ h1 < h2 /\ SameSession(h1, h2)
        /\ handlers[h1].pc = "failed"
        /\ handlers[h1].conn = c
        /\ conn[c] = "closed"
        /\ outbox[c][1] = SessionIdEvent(sid)
        /\ handlers[h2].conn # c
        /\ handlers[h2].pc \in {"appended", "awaiting", "completed", "failed"}

-----------------------------------------------------------------------------
(* C11..C14 *)

\* C11: whatever the payload of a user_message and whatever the completion
\* call does, no exception leaves handle_user_message: a handler that is over
\* has returned normally after emitting one 'error' or one bot_message event.
C11_NoFailureEscapes ==
    \A h \in Handlers :
        /\ handlers[h].pc # "raised"
        /\ (handlers[h].pc \notin {"idle", "appended", "awaiting"})
           => /\ Len(handlers[h].emitted) = 1
              /\ handlers[h].emitted[1].name \in {"error", "bot_message"}

\* C12: a connection that was accepted has received, first, one session_id
\* event carrying the id of a session of the store that no other connection
\* was given, second, the greeting as a bot_message, and after these neither
\* of the two again (so both precede every reply); the greeting is in no
\* transcript and in no completion request.
C12_GreetingOnceAndNotInTranscript ==
    /\ \A c \in Conns :
        LET ev == outbox[c] IN
        IF conn[c] = "new" THEN ev = <<>>
        ELSE /\ Len(ev) >= 2
             /\ ev[1].name = "session_id"
             /\ ev[1].session_id \in Sessions
             /\ \A c2 \in Conns \ {c} :
                    conn[c2] # "new" => outbox[c2][1].session_id # ev[1].session_id
             /\ ev[2] = [name |-> "bot_message", message |-> WELCOME,
                         timestamp |-> get_timestamp]
             /\ \A i \in 3..Len(ev) :
                    /\ ev[i].name \in {"bot_message", "error"}
                    /\ ev[i].message # WELCOME
    /\ \A s \in Sessions :
        \A i \in 1..Len(conversation_histories[s]) :
            conversation_histories[s][i].content # WELCOME
    /\ \A h \in Handlers :
        /\ handlers[h].pc = "awaiting" => Len(handlers[h].request.messages) >= 2
        /\ \A i \in 1..Len(handlers[h].request.messages) :
            handlers[h].request.messages[i].content # WELCOME

C12_Witness ==
    \E c \in Conns, h \in Handlers :
        /\ Len(outbox[c]) >= 4
        /\ handlers[h].pc = "awaiting"
        /\ handlers[h].conn = c
        /\ Len(handlers[h].request.messages) >= 5

\* C13: while the completion call for a message of session A is outstanding,
\* a message for another session B is not held up at any of its steps: a
\* user_message for B arriving on an open connection is handled at once and
\* accepted, an accepted message of B can send its request, and an outstanding
\* call of B can return or fail and be answered.
C13_CrossSessionProgress ==
    \A hA \in Handlers :
        handlers[hA].pc = "awaiting"
        => LET A == handlers[hA].data.session_id IN
           /\ \A hB \in Handlers \ {hA} :
                (handlers[hB].data.dict /\ handlers[hB].data.session_id # A)
                => /\ handlers[hB].pc = "appended" => ENABLED create(hB)
                   /\ handlers[hB].pc = "awaiting"
                      => \A outcome \in Outcomes(hB) :
                            ENABLED (/\ completion_returns(hB, outcome)
                                     /\ Len(outbox'[handlers[hB].conn])
                                            = Len(outbox[handlers[hB].conn]) + 1)
           /\ \A B \in Sessions \ {A}, c \in Conns :
                (conn[c] = "open" /\ EventCount < MaxEvents)
                => \E hB \in Handlers :
                    ENABLED (/\ handle_user_message(hB, c,
                                    [dict |-> TRUE, session_id |-> B,
                                     message |-> MessageText(hB)])
                             /\ handlers'[hB].pc = "appended")

C13_Witness ==
    \E hA, hB \in Handlers :
        /\ hA < hB
        /\ handlers[hA].pc = "awaiting"
        /\ handlers[hB].pc = "completed"
        /\ handlers[hB].data.session_id # handlers[hA].data.session_id
        /\ handlers[hB].conn # handlers[hA].conn

\* C14: when the credential is absent from the environment (not set, or
\* empty) the process never serves: it fails while the module is loaded, no
\* connection is accepted, no handler runs, the store stays empty and no
\* event, in particular no per-message error, is ever emitted.
C14_MissingCredentialIsFatalAtStartup ==
    (GROQ_API_KEY = "None" \/ GROQ_API_KEY = "")
    => /\ process \in {"loading", "failed"}
       /\ ENABLED load_module <=> process = "loading"
       /\ conversation_histories = <<>>
       /\ \A c \in Conns : conn[c] = "new" /\ outbox[c] = <<>>
       /\ \A h \in Handlers : handlers[h] = IdleHandler

C14_Witness ==
    /\ process = "failed"
    /\ GROQ_API_KEY = "None"

-----------------------------------------------------------------------------
(* C15..C19 *)

\* C15: in a session whose messages are handled one at a time, the request of
\* an accepted message names the fixed model and its messages are the
\* transcript up to and including the user turn of that message, the user turn
\* last, without the reply to it or any later turn; also when the recorded
\* request is looked at after the handler is over.
C15_RequestIsTranscriptUpToUserTurn ==
    \A h \in Handlers :
        (handlers[h].calls > 0 /\ handlers[h].data.session_id \notin overlapped)
        => LET sid == handlers[h].data.session_id
               upto == SubSeq(conversation_histories[sid], 1, handlers[h].uidx)
           IN  /\ handlers[h].pc = "awaiting"
                  => handlers[h].request = [model |-> MODEL, messages |-> upto]
               /\ call_args(h).model = "llama-3.3-70b-versatile"
               /\ call_args(h).messages = upto
               /\ upto[1].role = "system"
               /\ upto[Len(upto)] = Turn("user", handlers[h].data.message)

\* C16: a message is Received, then Rejected or Validated, Validated messages
\* are AwaitingCompletion and then Completed or Failed: every handler is at one
\* of these positions, it has called the completion service once when it is
\* awaiting, completed or failed and never otherwise, and it has emitted
\* exactly one event when it is over ('error' when rejected, a bot_message
\* when completed or failed) and none before.
C16_PerMessageStateMachine ==
    \A h \in Handlers :
        LET me == handlers[h] IN
        /\ me.pc \in {"idle", "rejected", "appended", "awaiting", "completed", "failed"}
        /\ me.pc \in {"idle", "appended"} => me.calls = 0 /\ me.emitted = <<>>
        /\ me.pc = "awaiting" => me.calls = 1 /\ me.emitted = <<>>
        /\ me.pc = "rejected"
           => me.calls = 0 /\ Len(me.emitted) = 1 /\ me.emitted[1].name = "error"
        /\ me.pc \in {"completed", "failed"}
           => me.calls = 1 /\ Len(me.emitted) = 1 /\ me.emitted[1].name = "bot_message"

\* C17: every transcript has exactly one system turn, its first, as many user
\* turns as messages were accepted for the session and as many assistant turns
\* as completion calls succeeded for it; its length is 1 + accepted +
\* succeeded, and the assistant turns do not outnumber the user turns.
C17_TurnAccounting ==
    \A s \in Sessions :
        LET t == conversation_histories[s]
            accepted == {h \in Handlers :
                            /\ handlers[h].data.dict
                            /\ handlers[h].data.session_id = s
                            /\ handlers[h].pc \in {"appended", "awaiting",
                                                    "completed", "failed"}}
            succeeded == {h \in accepted : handlers[h].pc = "completed"}
        IN  /\ t[1].role = "system"
            /\ RoleCount(t, Len(t), "system") = 1
            /\ RoleCount(t, Len(t), "user") = Cardinality(accepted)
            /\ RoleCount(t, Len(t), "assistant") = Cardinality(succeeded)
            /\ Len(t) = 1 + Cardinality(accepted) + Cardinality(succeeded)
            /\ RoleCount(t, Len(t), "assistant") <= RoleCount(t, Len(t), "user")

C17_Witness ==
    \E s \in Sessions, h1, h2, h3 \in Handlers :
        /\ handlers[h1].pc = "completed" /\ handlers[h1].data.session_id = s
        /\ handlers[h2].pc = "failed" /\ handlers[h2].data.session_id = s
        /\ handlers[h3].pc = "awaiting" /\ handlers[h3].data.session_id = s
        /\ Len(conversation_histories[s]) = 5

\* C18: no step removes, reorders or rewrites a turn or removes a session:
\* every session of the store is still in it after the step and its transcript
\* before the step is a prefix of its transcript after it (so the same holds
\* between any earlier and any later state).
C18_TranscriptsAppendOnly ==
    [][\A s \in Sessions :
        /\ s \in DOMAIN conversation_histories'
        /\ IsPrefix(conversation_histories[s], conversation_histories'[s])
        /\ Len(conversation_histories'[s]) <= Len(conversation_histories[s]) + 1
      ]_vars

C18_Witness ==
    \E s \in Sessions, h1, h2 \in Handlers, c \in Conns :
        /\ Len(conversation_histories[s]) = 3
        /\ handlers[h1].pc = "completed" /\ handlers[h1].data.session_id = s
        /\ handlers[h2].pc = "rejected"
        /\ conn[c] = "closed"
        /\ outbox[c][1].session_id = s

\* C19: a step delivers events to at most one connection: a connect its two
\* events to the connecting client, a step of a message's handler its one event
\* (reply, apology or 'Session not found') to the connection the message came
\* from, whichever connection the session id of the message was created by.
C19_EventsGoToOriginatingConnection ==
    [][\A c \in Conns :
        outbox'[c] # outbox[c]
        => \/ /\ conn[c] = "new" /\ conn'[c] = "open"
              /\ Len(outbox'[c]) = 2
           \/ \E h \in Handlers :
                /\ handlers'[h] # handlers[h]
                /\ handlers'[h].conn = c
                /\ Len(handlers'[h].emitted) = 1
                /\ outbox'[c] = Append(outbox[c], handlers'[h].emitted[1])
      ]_vars

C19_Witness ==
    \E h1, h2 \in Handlers, c1, c2 \in Conns :
        /\ c1 # c2
        /\ conn[c1] # "new"
        /\ handlers[h1].pc = "completed" /\ handlers[h1].conn = c2
        /\ handlers[h2].pc = "rejected" /\ handlers[h2].conn = c2
        /\ outbox[c1][1].session_id = handlers[h1].data.session_id
        /\ Len(outbox[c1]) = 2
        /\ Len(outbox[c2]) = 4

====
